---- MODULE Spec2Model ----
(***************************************************************************)
(* A model of include/glow/Base/Type.h: the tensor type descriptor Type,   *)
(* the element kinds, ShapeNHWC and flattenCdr.                            *)
(*                                                                         *)
(* Every operation of the header is a pure function or a constructor, so   *)
(* each is an operator computed the way the code computes it, and the      *)
(* specifications below are call sequences: Init draws the arguments, the  *)
(* actions perform the calls and record what they return.                  *)
(*                                                                         *)
(* A failed assert, and glow_unreachable(), end the run ("abort").  The    *)
(* asserts are modelled as compiled in.                                    *)
(*                                                                         *)
(* size_t arithmetic is arithmetic modulo 2^w.  TLC's integers cannot hold *)
(* 2^32 or 2^64, so w is scaled down to SizeBits; the dimension values     *)
(* drawn are small enough for a product to wrap at that width.             *)
(***************************************************************************)
EXTENDS Integers, Sequences, FiniteSets, TLC

VARIABLES
    wordSize,   \* sizeof(size_t) of the build, in bytes
    elemTy,     \* the ElemKind argument of the call sequence (a raw byte)
    dims,       \* the ArrayRef<size_t> argument of the call sequence
    pos,        \* the four positional arguments of ShapeNHWC(n, h, w, c)
    a, b, c,    \* Type objects
    origin,     \* which constructor built a: "none", "dims" or "default"
    sa, sb,     \* ShapeNHWC objects
    ret,        \* what the last call returned
    pc          \* "run", or "aborted" after a fatal precondition violation

vars == <<wordSize, elemTy, dims, pos, a, b, c, origin, sa, sb, ret, pc>>

---------------------------------------------------------------------------
(* Bounds of the model *)

\* size_t is SizeBits wide in the model.
SizeBits == 5
\* Dimension values of the Type call sequences are 0..MaxDim.
MaxDim == 2
\* Dimension sequences of the Type call sequences have 0..MaxLen entries.
MaxLen == 6

---------------------------------------------------------------------------
(* Program constants *)

max_tensor_dimensions == 6

FloatTy == 0
DoubleTy == 1
Int8Ty == 2
Int32Ty == 3
IndexTy == 4

\* enum class ElemKind : unsigned char { FloatTy, ..., IndexTy }
ElemKind == {FloatTy, DoubleTy, Int8Ty, Int32Ty, IndexTy}

RECURSIVE Pow2(_)
Pow2(n) == IF n = 0 THEN 1 ELSE 2 * Pow2(n - 1)

\* size_t values are 0..SizeMod-1; products wrap modulo SizeMod.
SizeMod == Pow2(SizeBits)

\* All sequences over S with lo..hi entries.
SeqsOf(S, lo, hi) == UNION {[1..n -> S] : n \in lo..hi}

---------------------------------------------------------------------------
(* struct Type *)

\* A Type object no constructor has built yet.
NoType == [sizes_ |-> <<>>, numSizes_ |-> 0, elementType_ |-> 255]

\* Mutant of TypeDefault: the default element kind is the first enumerator.
M_TypeDefault_FirstKind ==
    [sizes_ |-> [i \in 1..max_tensor_dimensions |-> 0],
     numSizes_ |-> 0,
     elementType_ |-> FloatTy]

\* Type() = default: the member initialisers sizes_ = {0,}, numSizes_{0},
\* elementType_{ElemKind::IndexTy}.
TypeDefault ==
    [sizes_ |-> [i \in 1..max_tensor_dimensions |-> 0],
     numSizes_ |-> 0,
     elementType_ |-> IndexTy]

\* Mutant of TypeCtorAsserts: <= for <.
M_TypeCtorAsserts_LessEq(d) == Len(d) <= max_tensor_dimensions

\* The assert of Type(ElemKind, ArrayRef<size_t>).
TypeCtorAsserts(d) == Len(d) < max_tensor_dimensions

\* Mutant of TypeCtor: the copy loop stops one entry early.
M_TypeCtor_StopsEarly(k, d) ==
    [sizes_ |-> [i \in 1..max_tensor_dimensions |->
                    IF i < Len(d) THEN d[i] ELSE 0],
     numSizes_ |-> Len(d) % 256,
     elementType_ |-> k]

\* Type(elemTy, dims) once its assert has passed: sizes_ starts all zero, the
\* loop copies dims[i] into sizes_[i] for i < dims.size(), numSizes_ (an
\* unsigned char) takes dims.size().
TypeCtor(k, d) ==
    [sizes_ |-> [i \in 1..max_tensor_dimensions |->
                    IF i <= Len(d) THEN d[i] ELSE TypeDefault.sizes_[i]],
     numSizes_ |-> Len(d) % 256,
     elementType_ |-> k]

\* Mutant of isEqualLoop: < for != in the comparison of two sizes.
RECURSIVE M_isEqualLoop_LessThan(_, _, _)
M_isEqualLoop_LessThan(this, other, i) ==
    IF i < this.numSizes_
    THEN IF this.sizes_[i + 1] < other.sizes_[i + 1]
         THEN FALSE
         ELSE M_isEqualLoop_LessThan(this, other, i + 1)
    ELSE TRUE

\* The loop of isEqual from index i (0-based, as in the code).
RECURSIVE isEqualLoop(_, _, _)
isEqualLoop(this, other, i) ==
    IF i < this.numSizes_
    THEN IF this.sizes_[i + 1] # other.sizes_[i + 1]
         THEN FALSE
         ELSE isEqualLoop(this, other, i + 1)
    ELSE TRUE

\* Mutant of isEqual: the check of the number of sizes is missing.
M_isEqual_NoRankCheck(this, other) ==
    IF this.elementType_ # other.elementType_ THEN FALSE
    ELSE isEqualLoop(this, other, 0)

\* bool Type::isEqual(const Type &other) const
isEqual(this, other) ==
    IF this.elementType_ # other.elementType_ THEN FALSE
    ELSE IF this.numSizes_ # other.numSizes_ THEN FALSE
    ELSE isEqualLoop(this, other, 0)

\* bool Type::isEqual(TypeRef other) const
isEqualRef(this, other) == isEqual(this, other)

\* bool operator==(const Type &LHS, const Type &RHS)
TypeOperatorEq(LHS, RHS) == isEqual(LHS, RHS)

\* ElemKind Type::getElementType() const
getElementType(this) == this.elementType_

\* ArrayRef<size_t> Type::dims() const: {sizes_, numSizes_}
TypeDims(this) == SubSeq(this.sizes_, 1, this.numSizes_)

\* The loop of size() from index i with the running product s.
RECURSIVE sizeLoop(_, _, _)
sizeLoop(this, i, s) ==
    IF i < this.numSizes_
    THEN sizeLoop(this, i + 1, (s * this.sizes_[i + 1]) % SizeMod)
    ELSE s

\* Mutant of size: no special case for a Type without dimensions.
M_size_EmptyProduct(this) == sizeLoop(this, 0, 1)

\* size_t Type::size() const
size(this) == IF this.numSizes_ = 0 THEN 0 ELSE sizeLoop(this, 0, 1)

---------------------------------------------------------------------------
(* What a call returns *)

Returned(op, v) == [op |-> op, st |-> "ok", val |-> v]
Aborted(op) == [op |-> op, st |-> "abort", val |-> 0]
NoCall == [op |-> "none", st |-> "ok", val |-> 0]

\* The outcome of a function that may fail fatally: a value, or the abort.
Ok(v) == [st |-> "ok", val |-> v]
Fatal == [st |-> "abort", val |-> 0]
Result(op, r) == [op |-> op, st |-> r.st, val |-> r.val]

\* A ShapeNHWC object no constructor has built yet.
NoShape == [n |-> 0, h |-> 0, w |-> 0, c |-> 0, built |-> FALSE]

---------------------------------------------------------------------------
(* SpecType: one Type is constructed and queried *)

DimSeqs == SeqsOf(0..MaxDim, 0, MaxLen)

InitType ==
    /\ wordSize = 8
    /\ elemTy \in ElemKind
    /\ dims \in DimSeqs
    /\ pos = <<0, 0, 0, 0>>
    /\ a = NoType /\ b = NoType /\ c = NoType
    /\ origin = "none"
    /\ sa = NoShape /\ sb = NoShape
    /\ ret = NoCall
    /\ pc = "run"

\* Type a(elemTy, dims);
CallTypeCtor ==
    /\ pc = "run" /\ origin = "none"
    /\ IF TypeCtorAsserts(dims)
       THEN /\ a' = TypeCtor(elemTy, dims)
            /\ origin' = "dims"
            /\ ret' = Returned("Type", 0)
            /\ pc' = "run"
       ELSE /\ a' = a
            /\ origin' = origin
            /\ ret' = Aborted("Type")
            /\ pc' = "aborted"
    /\ UNCHANGED <<wordSize, elemTy, dims, pos, b, c, sa, sb>>

\* Type a;
CallTypeDefault ==
    /\ pc = "run" /\ origin = "none"
    /\ a' = TypeDefault
    /\ origin' = "default"
    /\ ret' = Returned("Type", 0)
    /\ UNCHANGED <<wordSize, elemTy, dims, pos, b, c, sa, sb, pc>>

\* a.size()
CallSize ==
    /\ pc = "run" /\ origin # "none"
    /\ ret' = Returned("size", size(a))
    /\ UNCHANGED <<wordSize, elemTy, dims, pos, a, b, c, origin, sa, sb, pc>>

\* a.dims()
CallDims ==
    /\ pc = "run" /\ origin # "none"
    /\ ret' = Returned("dims", TypeDims(a))
    /\ UNCHANGED <<wordSize, elemTy, dims, pos, a, b, c, origin, sa, sb, pc>>

\* a.getElementType()
CallGetElementType ==
    /\ pc = "run" /\ origin # "none"
    /\ ret' = Returned("getElementType", getElementType(a))
    /\ UNCHANGED <<wordSize, elemTy, dims, pos, a, b, c, origin, sa, sb, pc>>

NextType ==
    \/ CallTypeCtor
    \/ CallTypeDefault
    \/ CallSize
    \/ CallDims
    \/ CallGetElementType

SpecType == InitType /\ [][NextType]_vars

---------------------------------------------------------------------------
(* Reference definitions the claims are stated with *)

\* The product of the entries of s in size_t arithmetic (1 for no entries).
RECURSIVE Product(_)
Product(s) == IF s = <<>> THEN 1 ELSE (Head(s) * Product(Tail(s))) % SizeMod

\* The populated dimensions of a Type, read slot by slot.
Populated(t) == [i \in 1..t.numSizes_ |-> t.sizes_[i]]

---------------------------------------------------------------------------
(* Claims checked under SpecType *)

\* C2: for every element kind K and every dimension sequence D with fewer
\* than max_tensor_dimensions entries, the Type built by Type(K, D) has
\* dims() = D (same length, values and order) and getElementType() = K.
C2_CtorRoundTrip ==
    /\ (origin = "dims" /\ ret.op = "dims") =>
           /\ Len(dims) < max_tensor_dimensions
           /\ Len(ret.val) = Len(dims)
           /\ \A i \in 1..Len(dims) : ret.val[i] = dims[i]
    /\ (origin = "dims" /\ ret.op = "getElementType") => ret.val = elemTy
    /\ (origin = "none" /\ pc = "run" /\ Len(dims) < max_tensor_dimensions) =>
           ENABLED CallTypeCtor

\* A Type of five distinct-looking dimensions has been built and dims() has
\* returned them.
C2_Witness ==
    /\ origin = "dims" /\ ret.op = "dims"
    /\ dims = <<1, 2, 0, 2, 1>>
    /\ ret.val = <<1, 2, 0, 2, 1>>
    /\ elemTy = Int8Ty

\* C3 as stated: size() is 0 exactly when numDims = 0, and otherwise the
\* product of the populated dimensions.
C3_SizeZeroExactlyWhenNoDims ==
    ret.op = "size" =>
        /\ (ret.val = 0) <=> (a.numSizes_ = 0)
        /\ a.numSizes_ # 0 => ret.val = Product(Populated(a))

\* C3 as amended: size() is 0 when numDims = 0, and otherwise the product of
\* the populated dimensions, which is 0 as well when one of them is 0.
C3_SizeIsProductOrZero ==
    ret.op = "size" =>
        /\ a.numSizes_ = 0 => ret.val = 0
        /\ a.numSizes_ # 0 => ret.val = Product(Populated(a))
        /\ (origin = "dims" /\ dims # <<>>) => ret.val = Product(dims)
        /\ (\E i \in 1..a.numSizes_ : a.sizes_[i] = 0) => ret.val = 0

\* size() has returned 0 for a Type of two dimensions, one of them 0.
C3_Witness ==
    /\ ret.op = "size" /\ origin = "dims"
    /\ dims = <<2, 0>>
    /\ a.numSizes_ = 2
    /\ ret.val = 0

\* C4: a dimension sequence of max_tensor_dimensions entries or more is
\* rejected by a fatal precondition violation and leaves no Type behind, one
\* of max_tensor_dimensions - 1 entries is accepted, and every constructed
\* Type has 0 <= numDims < max_tensor_dimensions.
C4_RankBound ==
    /\ (ret.op = "Type" /\ origin # "default"
          /\ Len(dims) >= max_tensor_dimensions) =>
           /\ ret.st = "abort" /\ pc = "aborted"
           /\ origin = "none" /\ a = NoType
    /\ (ret.op = "Type" /\ origin # "default"
          /\ Len(dims) < max_tensor_dimensions) =>
           /\ ret.st = "ok" /\ pc = "run"
           /\ origin = "dims" /\ a.numSizes_ = Len(dims)
    /\ pc = "aborted" => Len(dims) >= max_tensor_dimensions
    /\ origin # "none" =>
           /\ a.numSizes_ \in 0..(max_tensor_dimensions - 1)
           /\ Len(a.sizes_) = max_tensor_dimensions

\* The constructor has been called with exactly max_tensor_dimensions
\* dimensions and has aborted.
C4_Witness ==
    /\ ret.op = "Type" /\ ret.st = "abort" /\ pc = "aborted"
    /\ Len(dims) = max_tensor_dimensions

---------------------------------------------------------------------------
(* SpecEq: two constructed Types are compared *)

\* Dimension values of the compared Types are 0..EqMaxDim.
EqMaxDim == 1
\* The compared Types have 0..EqMaxLen dimensions.
EqMaxLen == 3

\* The Types the two constructors build from kinds of the enumeration and
\* dimension sequences over 0..maxDim with at most maxLen entries.
ValidTypes(maxDim, maxLen) ==
    {TypeCtor(k, d) : k \in ElemKind,
                      d \in {x \in SeqsOf(0..maxDim, 0, maxLen) :
                                TypeCtorAsserts(x)}}
        \cup {TypeDefault}

InitEq ==
    /\ wordSize = 8
    /\ elemTy = IndexTy
    /\ dims = <<>>
    /\ pos = <<0, 0, 0, 0>>
    /\ a \in ValidTypes(EqMaxDim, EqMaxLen)
    /\ b \in ValidTypes(EqMaxDim, EqMaxLen)
    /\ c = NoType
    /\ origin = "dims"
    /\ sa = NoShape /\ sb = NoShape
    /\ ret = NoCall
    /\ pc = "run"

\* a = Type();
CallAssignDefault ==
    /\ pc = "run" /\ origin = "dims"
    /\ a' = TypeDefault
    /\ origin' = "default"
    /\ ret' = Returned("Type", 0)
    /\ UNCHANGED <<wordSize, elemTy, dims, pos, b, c, sa, sb, pc>>

\* a.isEqual(b)
CallIsEqual ==
    /\ pc = "run" /\ origin # "none"
    /\ ret' = Returned("isEqual", isEqual(a, b))
    /\ UNCHANGED <<wordSize, elemTy, dims, pos, a, b, c, origin, sa, sb, pc>>

\* a.isEqual(&b)
CallIsEqualRef ==
    /\ pc = "run" /\ origin # "none"
    /\ ret' = Returned("isEqualRef", isEqualRef(a, b))
    /\ UNCHANGED <<wordSize, elemTy, dims, pos, a, b, c, origin, sa, sb, pc>>

\* a == b
CallOperatorEq ==
    /\ pc = "run" /\ origin # "none"
    /\ ret' = Returned("operator==", TypeOperatorEq(a, b))
    /\ UNCHANGED <<wordSize, elemTy, dims, pos, a, b, c, origin, sa, sb, pc>>

NextEq ==
    \/ CallAssignDefault
    \/ CallIsEqual
    \/ CallIsEqualRef
    \/ CallOperatorEq
    \/ CallSize

SpecEq == InitEq /\ [][NextEq]_vars

EqOps == {"isEqual", "isEqualRef", "operator=="}

\* C1: a.isEqual(b) and a == b are true exactly when the element kinds are
\* equal, the dimension counts are equal and the populated dimensions are
\* equal pairwise, in order; the slots past numDims play no part.
C1_EqualIffStructural ==
    ret.op \in EqOps =>
        /\ ret.val = (/\ a.elementType_ = b.elementType_
                      /\ a.numSizes_ = b.numSizes_
                      /\ \A i \in 1..a.numSizes_ : a.sizes_[i] = b.sizes_[i])
        /\ ret.val = (/\ getElementType(a) = getElementType(b)
                      /\ Populated(a) = Populated(b))

\* Same kind, dimensions [1,1] against [1,1,0]: the two sizes_ arrays hold the
\* same six values and the comparison has returned false.
C1_Witness ==
    /\ ret.op = "operator==" /\ ret.val = FALSE
    /\ a = TypeCtor(FloatTy, <<1, 1>>)
    /\ b = TypeCtor(FloatTy, <<1, 1, 0>>)
    /\ a.sizes_ = b.sizes_

\* C6: a default-constructed Type has numDims = 0, kind IndexTy and size() = 0,
\* and compares unequal to every Type with numDims > 0, whatever its kind.
C6_DefaultType ==
    /\ origin = "default" =>
           /\ a.numSizes_ = 0
           /\ getElementType(a) = IndexTy
           /\ TypeDims(a) = <<>>
    /\ (origin = "default" /\ ret.op = "size") => ret.val = 0
    /\ (origin = "default" /\ ret.op \in EqOps /\ b.numSizes_ > 0) =>
           ret.val = FALSE
    /\ (ret.op \in EqOps /\ b = TypeDefault /\ a.numSizes_ > 0) =>
           ret.val = FALSE

\* The default Type has been compared with a Type of its own kind and one
\* dimension of size 0, and found unequal.
C6_Witness ==
    /\ origin = "default"
    /\ b = TypeCtor(IndexTy, <<0>>)
    /\ ret.op = "isEqual" /\ ret.val = FALSE

---------------------------------------------------------------------------
(* SpecTri: three constructed Types are compared pair by pair *)

\* Dimension values of the three Types are 0..TriMaxDim.
TriMaxDim == 1
\* The three Types have 0..TriMaxLen dimensions.
TriMaxLen == 1

Regs == {"a", "b", "c"}

Reg(x) == IF x = "a" THEN a ELSE IF x = "b" THEN b ELSE c

InitTri ==
    /\ wordSize = 8
    /\ elemTy = IndexTy
    /\ dims = <<>>
    /\ pos = <<0, 0, 0, 0>>
    /\ a \in ValidTypes(TriMaxDim, TriMaxLen)
    /\ b \in ValidTypes(TriMaxDim, TriMaxLen)
    /\ c \in ValidTypes(TriMaxDim, TriMaxLen)
    /\ origin = "dims"
    /\ sa = NoShape /\ sb = NoShape
    /\ ret = NoCall
    /\ pc = "run"

\* for x, y among a, b, c: m[x][y] = x.isEqual(y)
CallIsEqualAll ==
    /\ pc = "run" /\ ret.op = "none"
    /\ ret' = Returned("isEqualAll",
                       [x \in Regs, y \in Regs |-> isEqual(Reg(x), Reg(y))])
    /\ UNCHANGED <<wordSize, elemTy, dims, pos, a, b, c, origin, sa, sb, pc>>

\* for x, y among a, b, c: m[x][y] = (x == y)
CallOperatorEqAll ==
    /\ pc = "run" /\ ret.op = "none"
    /\ ret' = Returned("operator==All",
                       [x \in Regs, y \in Regs |->
                           TypeOperatorEq(Reg(x), Reg(y))])
    /\ UNCHANGED <<wordSize, elemTy, dims, pos, a, b, c, origin, sa, sb, pc>>

NextTri ==
    \/ CallIsEqualAll
    \/ CallOperatorEqAll

SpecTri == InitTri /\ [][NextTri]_vars

\* C9: Type equality is an equivalence relation over the validly constructed
\* Types: reflexive, symmetric and transitive.
C9_Equivalence ==
    ret.op \in {"isEqualAll", "operator==All"} =>
        /\ \A x \in Regs : ret.val[x, x]
        /\ \A x, y \in Regs : ret.val[x, y] => ret.val[y, x]
        /\ \A x, y, z \in Regs :
               (ret.val[x, y] /\ ret.val[y, z]) => ret.val[x, z]

\* Three Types, the first two built alike and the third of another rank,
\* have been compared: a equals b, and neither equals c.
C9_Witness ==
    /\ ret.op = "isEqualAll"
    /\ a = TypeCtor(Int32Ty, <<1>>) /\ b = a
    /\ c = TypeCtor(Int32Ty, <<>>)
    /\ ret.val["a", "b"] /\ ret.val["b", "a"]
    /\ ~ret.val["a", "c"] /\ ~ret.val["c", "b"]

---------------------------------------------------------------------------
(* The element kind lookups *)

SizeofFloat == 4
SizeofDouble == 8
SizeofInt8 == 1
SizeofInt32 == 4

\* glow_unreachable(), of glow/Support/Compiler.h: fatal.
glow_unreachable == Fatal

\* static unsigned Type::getElementSize(ElemKind Ty), on a build whose
\* sizeof(size_t) is w.
getElementSize(Ty, w) ==
    CASE Ty = FloatTy -> Ok(SizeofFloat)
      [] Ty = DoubleTy -> Ok(SizeofDouble)
      [] Ty = Int8Ty -> Ok(SizeofInt8)
      [] Ty = Int32Ty -> Ok(SizeofInt32)
      [] Ty = IndexTy -> Ok(w)
      [] OTHER -> glow_unreachable

\* Mutant of ElementNames: two names in the wrong order.
M_ElementNames_Swapped == <<"float", "double", "i32", "i8", "index">>

\* const char *names[] of getElementName.
ElementNames == <<"float", "double", "i8", "i32", "index">>

\* What a read past the end of names[] may find.
GarbageNames == {"", "garbage"}

\* static StringRef Type::getElementName(ElemKind Ty): names[(int)Ty], with
\* no check of Ty.  Past the end of the array the read is undefined: the set
\* holds every outcome, a crash or some string.
getElementName(Ty) ==
    IF Ty + 1 \in DOMAIN ElementNames
    THEN {Ok(ElementNames[Ty + 1])}
    ELSE {Fatal} \cup {Ok(g) : g \in GarbageNames}

\* The template arguments isType is instantiated with.
NativeTypes == {"float", "double", "int8_t", "int32_t", "size_t", "bool"}

\* template <class ElemTy> static bool Type::isType(ElemKind Ty)
isType(ElemTy, Ty) ==
    CASE Ty = FloatTy -> Ok(ElemTy = "float")
      [] Ty = DoubleTy -> Ok(ElemTy = "double")
      [] Ty = Int8Ty -> Ok(ElemTy = "int8_t")
      [] Ty = Int32Ty -> Ok(ElemTy = "int32_t")
      [] Ty = IndexTy -> Ok(ElemTy = "size_t")
      [] OTHER -> glow_unreachable

---------------------------------------------------------------------------
(* SpecKind: the lookups are called with a kind byte, directly and through a
   Type built with it *)

\* The kind bytes drawn are 0..MaxRawKind (ElemKind is an unsigned char).
MaxRawKind == 7

InitKind ==
    /\ wordSize \in {4, 8}
    /\ elemTy \in 0..MaxRawKind
    /\ dims \in SeqsOf(0..1, 0, 1)
    /\ pos = <<0, 0, 0, 0>>
    /\ a = NoType /\ b = NoType /\ c = NoType
    /\ origin = "none"
    /\ sa = NoShape /\ sb = NoShape
    /\ ret = NoCall
    /\ pc = "run"

\* The call has returned r, or has ended the run.
Finish(r) ==
    /\ ret' = r
    /\ pc' = IF r.st = "abort" THEN "aborted" ELSE pc

\* Type::getElementSize(elemTy)
CallGetElementSizeStatic ==
    /\ pc = "run"
    /\ Finish(Result("Type::getElementSize",
                     getElementSize(elemTy, wordSize)))
    /\ UNCHANGED <<wordSize, elemTy, dims, pos, a, b, c, origin, sa, sb>>

\* Type::getElementName(elemTy)
CallGetElementNameStatic ==
    /\ pc = "run"
    /\ \E r \in getElementName(elemTy) :
           Finish(Result("Type::getElementName", r))
    /\ UNCHANGED <<wordSize, elemTy, dims, pos, a, b, c, origin, sa, sb>>

\* Type::isType<ElemTy>(elemTy)
CallIsTypeStatic ==
    /\ pc = "run"
    /\ \E E \in NativeTypes :
           Finish(Result("Type::isType<" \o E \o ">", isType(E, elemTy)))
    /\ UNCHANGED <<wordSize, elemTy, dims, pos, a, b, c, origin, sa, sb>>

\* a.getElementSize()
CallGetElementSize ==
    /\ pc = "run" /\ origin # "none"
    /\ Finish(Result("getElementSize",
                     getElementSize(a.elementType_, wordSize)))
    /\ UNCHANGED <<wordSize, elemTy, dims, pos, a, b, c, origin, sa, sb>>

\* a.getElementName()
CallGetElementName ==
    /\ pc = "run" /\ origin # "none"
    /\ \E r \in getElementName(a.elementType_) :
           Finish(Result("getElementName", r))
    /\ UNCHANGED <<wordSize, elemTy, dims, pos, a, b, c, origin, sa, sb>>

\* a.isType<ElemTy>()
CallIsType ==
    /\ pc = "run" /\ origin # "none"
    /\ \E E \in NativeTypes :
           Finish(Result("isType<" \o E \o ">",
                         isType(E, a.elementType_)))
    /\ UNCHANGED <<wordSize, elemTy, dims, pos, a, b, c, origin, sa, sb>>

NextKind ==
    \/ CallTypeCtor
    \/ CallGetElementSizeStatic
    \/ CallGetElementNameStatic
    \/ CallIsTypeStatic
    \/ CallGetElementSize
    \/ CallGetElementName
    \/ CallIsType

SpecKind == InitKind /\ [][NextKind]_vars

SizeOps == {"Type::getElementSize", "getElementSize"}
NameOps == {"Type::getElementName", "getElementName"}
IsTypeOps ==
    {"Type::isType<" \o E \o ">" : E \in NativeTypes}
        \cup {"isType<" \o E \o ">" : E \in NativeTypes}

\* C7: a kind outside {FloatTy, DoubleTy, Int8Ty, Int32Ty, IndexTy} that
\* reaches getElementSize, getElementName or isType ends in a fatal abort; no
\* lookup returns a value for it.
C7_UnknownKindAborts ==
    (ret.op \in SizeOps \cup NameOps \cup IsTypeOps /\ elemTy \notin ElemKind)
        => ret.st = "abort"

\* The metadata table of the element kinds, on a build whose word is w bytes.
KindTable(w) ==
    (FloatTy :> [bytes |-> 4, name |-> "float"])
        @@ (DoubleTy :> [bytes |-> 8, name |-> "double"])
        @@ (Int8Ty :> [bytes |-> 1, name |-> "i8"])
        @@ (Int32Ty :> [bytes |-> 4, name |-> "i32"])
        @@ (IndexTy :> [bytes |-> w, name |-> "index"])

\* C10: on the kinds of the enumeration getElementSize and getElementName are
\* total, change nothing and agree with the metadata table; every size is
\* positive and every name non-empty; the instance queries of a Type return
\* the entry of the kind it was constructed with.
C10_LookupTable ==
    elemTy \in ElemKind =>
        /\ ret.op \in SizeOps =>
               /\ ret.st = "ok"
               /\ ret.val = KindTable(wordSize)[elemTy].bytes
               /\ ret.val > 0
        /\ ret.op \in NameOps =>
               /\ ret.st = "ok"
               /\ ret.val = KindTable(wordSize)[elemTy].name
               /\ ret.val # ""
        /\ ret.op \in {"getElementSize", "getElementName"} =>
               /\ origin = "dims"
               /\ a = TypeCtor(elemTy, dims)
               /\ getElementType(a) = elemTy
        /\ ret.op \in SizeOps \cup NameOps =>
               /\ pc = "run"
               /\ origin = "none" => a = NoType

\* A Type built with Int32Ty has answered getElementName() with "i32".
C10_Witness ==
    /\ origin = "dims" /\ a.elementType_ = Int32Ty
    /\ ret.op = "getElementName" /\ ret.val = "i32"

---------------------------------------------------------------------------
(* struct ShapeNHWC and flattenCdr *)

\* Mutant of ShapeFromSeq: height and width taken from each other's entry.
M_ShapeFromSeq_SwapHW(shape) ==
    IF Len(shape) = 4
    THEN Ok([n |-> shape[1], h |-> shape[3], w |-> shape[2], c |-> shape[4],
             built |-> TRUE])
    ELSE Fatal

\* explicit ShapeNHWC(ArrayRef<size_t> shape)
ShapeFromSeq(shape) ==
    IF Len(shape) = 4
    THEN Ok([n |-> shape[1], h |-> shape[2], w |-> shape[3], c |-> shape[4],
             built |-> TRUE])
    ELSE Fatal

\* explicit ShapeNHWC(size_t samples, size_t height, size_t width,
\*                    size_t channels)
ShapeFromValues(samples, height, width, channels) ==
    [n |-> samples, h |-> height, w |-> width, c |-> channels, built |-> TRUE]

\* bool ShapeNHWC::equals(const ShapeNHWC &other) const
ShapeEquals(this, other) ==
    this.n = other.n /\ this.h = other.h /\ this.w = other.w
        /\ this.c = other.c

\* bool operator==(const ShapeNHWC &LHS, const ShapeNHWC &RHS)
ShapeOperatorEq(LHS, RHS) == ShapeEquals(LHS, RHS)

\* The loop of flattenCdr from index i (0-based) with the running product.
RECURSIVE flattenCdrLoop(_, _, _)
flattenCdrLoop(d, i, rest) ==
    IF i < Len(d)
    THEN flattenCdrLoop(d, i + 1, (rest * d[i + 1]) % SizeMod)
    ELSE rest

\* Mutant of flattenCdr: the loop starts at index 1, not 2.
M_flattenCdr_LoopFromOne(d) ==
    IF Len(d) > 1
    THEN Ok(<<d[1], flattenCdrLoop(d, 1, d[2])>>)
    ELSE Fatal

\* std::pair<size_t, size_t> flattenCdr(ArrayRef<size_t> dims)
flattenCdr(d) ==
    IF Len(d) > 1
    THEN Ok(<<d[1], flattenCdrLoop(d, 2, d[2])>>)
    ELSE Fatal

---------------------------------------------------------------------------
(* SpecShape: a ShapeNHWC is built from a sequence, another from four values,
   and the two are compared *)

\* The values of the shapes are 0..ShapeMaxDim.
ShapeMaxDim == 1
\* The sequences a shape is built from have 0..ShapeMaxLen entries.
ShapeMaxLen == 5

InitShape ==
    /\ wordSize = 8
    /\ elemTy = IndexTy
    /\ dims \in SeqsOf(0..ShapeMaxDim, 0, ShapeMaxLen)
    /\ pos \in [1..4 -> 0..ShapeMaxDim]
    /\ a = NoType /\ b = NoType /\ c = NoType
    /\ origin = "none"
    /\ sa = NoShape /\ sb = NoShape
    /\ ret = NoCall
    /\ pc = "run"

\* ShapeNHWC sa(dims);
CallShapeFromSeq ==
    /\ pc = "run" /\ ~sa.built
    /\ LET r == ShapeFromSeq(dims)
       IN  /\ Finish(Result("ShapeNHWC(seq)", r))
           /\ sa' = IF r.st = "ok" THEN r.val ELSE sa
    /\ UNCHANGED <<wordSize, elemTy, dims, pos, a, b, c, origin, sb>>

\* ShapeNHWC sb(pos[0], pos[1], pos[2], pos[3]);
CallShapeFromValues ==
    /\ pc = "run" /\ ~sb.built
    /\ sb' = ShapeFromValues(pos[1], pos[2], pos[3], pos[4])
    /\ ret' = Returned("ShapeNHWC(n,h,w,c)", 0)
    /\ UNCHANGED <<wordSize, elemTy, dims, pos, a, b, c, origin, sa, pc>>

\* sb.equals(sa)
CallShapeEquals ==
    /\ pc = "run" /\ sa.built /\ sb.built
    /\ ret' = Returned("equals", ShapeEquals(sb, sa))
    /\ UNCHANGED <<wordSize, elemTy, dims, pos, a, b, c, origin, sa, sb, pc>>

\* sb == sa
CallShapeOperatorEq ==
    /\ pc = "run" /\ sa.built /\ sb.built
    /\ ret' = Returned("shape==", ShapeOperatorEq(sb, sa))
    /\ UNCHANGED <<wordSize, elemTy, dims, pos, a, b, c, origin, sa, sb, pc>>

NextShape ==
    \/ CallShapeFromSeq
    \/ CallShapeFromValues
    \/ CallShapeEquals
    \/ CallShapeOperatorEq

SpecShape == InitShape /\ [][NextShape]_vars

\* C8: the ShapeNHWC built from (n, h, w, c) equals, by equals and by
\* operator==, the one built from the sequence [n, h, w, c], whose entries
\* 0..3 become n, h, w, c in that order; a sequence of any other length is
\* rejected by a fatal precondition violation.
C8_ShapeNHWC ==
    /\ ret.op \in {"equals", "shape=="} =>
           /\ ret.val = (pos = dims)
           /\ ret.val = (sa.n = sb.n /\ sa.h = sb.h /\ sa.w = sb.w
                            /\ sa.c = sb.c)
    /\ sa.built =>
           /\ Len(dims) = 4
           /\ sa.n = dims[1] /\ sa.h = dims[2] /\ sa.w = dims[3]
           /\ sa.c = dims[4]
    /\ sb.built =>
           sb.n = pos[1] /\ sb.h = pos[2] /\ sb.w = pos[3] /\ sb.c = pos[4]
    /\ ret.op = "ShapeNHWC(seq)" =>
           /\ (Len(dims) = 4) <=> (ret.st = "ok" /\ sa.built)
           /\ (Len(dims) # 4) <=> (ret.st = "abort" /\ pc = "aborted"
                                      /\ sa = NoShape)
    /\ pc = "aborted" => Len(dims) # 4

\* The shapes built from (0, 1, 0, 1) and from [0, 1, 0, 1] have compared
\* equal.
C8_Witness ==
    /\ ret.op = "shape==" /\ ret.val = TRUE
    /\ dims = <<0, 1, 0, 1>> /\ pos = <<0, 1, 0, 1>>
    /\ sa.built /\ sb.built

---------------------------------------------------------------------------
(* SpecFlatten: flattenCdr is called on a dimension sequence *)

\* The dimension values of the flattened sequences are 0..FlatMaxDim.
FlatMaxDim == 7
\* The flattened sequences have 0..FlatMaxLen entries.
FlatMaxLen == 4

InitFlatten ==
    /\ wordSize = 8
    /\ elemTy = IndexTy
    /\ dims \in SeqsOf(0..FlatMaxDim, 0, FlatMaxLen)
    /\ pos = <<0, 0, 0, 0>>
    /\ a = NoType /\ b = NoType /\ c = NoType
    /\ origin = "none"
    /\ sa = NoShape /\ sb = NoShape
    /\ ret = NoCall
    /\ pc = "run"

\* flattenCdr(dims)
CallFlattenCdr ==
    /\ pc = "run" /\ ret.op = "none"
    /\ Finish(Result("flattenCdr", flattenCdr(dims)))
    /\ UNCHANGED <<wordSize, elemTy, dims, pos, a, b, c, origin, sa, sb>>

NextFlatten == CallFlattenCdr

SpecFlatten == InitFlatten /\ [][NextFlatten]_vars

\* C5: for a dimension sequence of two entries or more flattenCdr returns the
\* pair (first, rest) with first = dims[0] and rest = the product of dims[1..]
\* (in size_t arithmetic); for a sequence of no or one entry it is a fatal
\* precondition violation and returns no pair.
C5_FlattenCdr ==
    ret.op = "flattenCdr" =>
        /\ Len(dims) >= 2 =>
               /\ ret.st = "ok" /\ pc = "run"
               /\ ret.val[1] = dims[1]
               /\ ret.val[2] = Product(Tail(dims))
        /\ Len(dims) < 2 => (ret.st = "abort" /\ pc = "aborted")

\* The example of the header's comment: [7, 3, 4, 2] -> [7, 24].
C5_Witness ==
    /\ ret.op = "flattenCdr" /\ ret.st = "ok"
    /\ dims = <<7, 3, 4, 2>>
    /\ ret.val = <<7, 24>>

====
